---- MODULE Spec2Model ----
(***************************************************************************)
(* Ownership and lifecycle layer of the vaccel torch bindings:             *)
(* Buffer, Tensor<T> and SavedModel wrappers over native handles           *)
(* (src/src/torch.rs), with the native runtime behind crate::ffi as the    *)
(* environment.                                                            *)
(***************************************************************************)
EXTENDS Integers, Sequences, FiniteSets, TLC

(* ------------------------------ bounds -------------------------------- *)
MaxBuffers == 2
MaxBufHandles == 2
MaxAllocs == 2
MaxModels == 2
MaxNativeCalls == 2
MaxTensors == 1
MaxDataLen == 2
MaxWires == 1
MaxInnerCalls == 2
MaxTimerCalls == 4

NULL == 0

BufSlots == 1..MaxBuffers
BufHandles == 1..MaxBufHandles
Allocs == 1..MaxAllocs
MSlots == 1..MaxModels
MHandles == 1..MaxModels
TSlots == 1..MaxTensors
THandles == 1..MaxTensors
WSlots == 1..MaxWires

(* sizes of the byte regions the caller and the runtime hand over *)
ByteSizes == {0, 2}

VARIABLES
    mem,        \* byte allocations: who owns each, who freed it (in order)
    nbuf,       \* native vaccel_torch_buffer objects, by handle
    buffers,    \* Buffer wrappers: inner, vaccel_owned
    nmodel,     \* native vaccel_torch_saved_model objects, by handle
    models,     \* SavedModel wrappers: inner
    ntensor,    \* native vaccel_torch_tensor objects, by handle
    tensors,    \* Tensor<T> wrappers: inner, dims, data_count, data
    wire,       \* TorchTensor values (wire form): dims, field_type, data
    wnative,    \* native tensors made by TorchTensor::inner, in call order
    timers,     \* Timers: per name, whether it has an entry, and its shots
    now,        \* the monotonic clock (Instant::now)
    tcalls,     \* the number of start and stop calls made
    lastOp,     \* the last wrapper operation: its result and its native calls
    halted      \* the process stopped: a Rust panic (assert!) or a memory fault

vars == <<mem, nbuf, buffers, nmodel, models, ntensor, tensors, wire, wnative,
          timers, now, tcalls, lastOp, halted>>

bufferVars == <<mem, nbuf, buffers>>
modelVars == <<nmodel, models>>

tensorVars == <<ntensor, tensors>>

wireVars == <<wire, wnative>>

timerVars == <<timers, now, tcalls>>

notBuffer == <<modelVars, tensorVars, wireVars, timerVars>>
notModel == <<bufferVars, tensorVars, wireVars, timerVars>>
notTensor == <<bufferVars, modelVars, wireVars, timerVars>>
notWire == <<bufferVars, modelVars, timerVars>>
notTimer == <<bufferVars, modelVars, tensorVars, wireVars, halted>>

NoOp == [op |-> "none", who |-> 0, pre |-> "", result |-> "", code |-> "",
         calls |-> <<>>, arg |-> <<>>]

(* op: the operation; who: the wrapper slot; pre: the native object's phase
   before it; result, code: what the caller got; calls: the native calls the
   operation made, in order; arg: the element sequence passed in, if any *)
Op(op, who, pre, result, code, calls) ==
    [op |-> op, who |-> who, pre |-> pre, result |-> result, code |-> code,
     calls |-> calls, arg |-> <<>>]

OpArg(op, who, pre, result, calls, arg) ==
    [op |-> op, who |-> who, pre |-> pre, result |-> result, code |-> "",
     calls |-> calls, arg |-> arg]

CallR(fn, h, ret) == [fn |-> fn, h |-> h, ret |-> ret]
Call(fn, h) == CallR(fn, h, "")

(* the smallest member of a non-empty set of naturals: the next free id *)
MinOf(S) == CHOOSE x \in S : \A y \in S : x <= y

(* ====================== native buffer objects ========================= *)

FreshBuf == [state |-> "unalloc", data |-> NULL, size |-> 0, producer |-> "none",
             orig |-> NULL, taken |-> NULL, destroyedBy |-> <<>>]

FreeBufHandles == {h \in BufHandles : nbuf[h].state = "unalloc"}
FreeAllocs == {a \in Allocs : mem[a].owner = "unused"}

(* buffer-allocate(pointer, size) -> handle: the handle refers to the data *)
vaccel_torch_buffer_new(nb, h, ptr, size) ==
    [nb EXCEPT ![h] = [state |-> "live", data |-> ptr, size |-> size,
                       producer |-> "wrapper", orig |-> ptr, taken |-> NULL,
                       destroyedBy |-> <<>>]]

(* buffer-get-data(handle) -> (pointer, size) *)
vaccel_torch_buffer_get_data(nb, h) ==
    IF h = NULL THEN [ptr |-> NULL, size |-> 0]
    ELSE [ptr |-> nb[h].data, size |-> nb[h].size]

(* buffer-take-data(handle) -> (pointer, size): detaches the data *)
vaccel_torch_buffer_take_data(nb, h) ==
    [nb EXCEPT ![h].data = NULL, ![h].size = 0, ![h].taken = nb[h].data]

(* buffer-destroy(handle): the destructor frees the data the handle still
   refers to, then the handle object *)
vaccel_torch_buffer_destroy(nb, h, by) ==
    [nb EXCEPT ![h].state = "destroyed",
               ![h].destroyedBy = Append(nb[h].destroyedBy, by)]

FreedByDestroy(nb, h) ==
    IF nb[h].data # NULL THEN {nb[h].data} ELSE {}

MemAfterFree(m, as, by) ==
    [a \in Allocs |-> IF a \in as
                      THEN [m[a] EXCEPT !.frees = Append(m[a].frees, by)]
                      ELSE m[a]]

(* ============================ Buffer ================================== *)

(* Drop consults the ownership flag: data that is not vaccel-owned is
   detached before the handle is destroyed *)
DropDetaches_Inverted(b) == b.vaccel_owned

DropDetaches(b) == ~b.vaccel_owned

(* the caller creates a byte region (a Vec<u8> or slice it owns) *)
CallerAlloc(size) ==
    /\ ~halted
    /\ FreeAllocs # {}
    /\ LET a == MinOf(FreeAllocs) IN
         mem' = [mem EXCEPT ![a] = [owner |-> "caller", size |-> size,
                                    frees |-> <<>>]]
    /\ lastOp' = NoOp
    /\ UNCHANGED <<nbuf, buffers, halted, notBuffer>>

(* the caller's region goes out of scope: the caller frees it, once *)
CallerFree(a) ==
    /\ ~halted
    /\ mem[a].owner = "caller"
    /\ \A i \in 1..Len(mem[a].frees) : mem[a].frees[i] # "caller"
    /\ mem' = MemAfterFree(mem, {a}, "caller")
    /\ lastOp' = NoOp
    /\ UNCHANGED <<nbuf, buffers, halted, notBuffer>>

(* Buffer::new(data: &[u8]) *)
Buffer_new(w, a, ok) ==
    /\ ~halted
    /\ buffers[w].state = "none"
    /\ \A v \in BufSlots : v < w => buffers[v].state # "none"
    /\ mem[a].owner = "caller"
    /\ mem[a].frees = <<>>
    /\ FreeBufHandles # {}
    /\ IF ok
       THEN LET h == MinOf(FreeBufHandles) IN
            /\ nbuf' = vaccel_torch_buffer_new(nbuf, h, a, mem[a].size)
            /\ buffers' = [buffers EXCEPT ![w] =
                  [state |-> "live", inner |-> h, vaccel_owned |-> FALSE]]
            /\ lastOp' = Op("Buffer::new", w, "", "Ok", "",
                            <<Call("vaccel_torch_buffer_new", h)>>)
            /\ UNCHANGED halted
       ELSE \* the native allocation returned null: assert! panics
            /\ halted' = TRUE
            /\ lastOp' = Op("Buffer::new", w, "", "panic", "",
                            <<Call("vaccel_torch_buffer_new", NULL)>>)
            /\ UNCHANGED <<nbuf, buffers>>
    /\ UNCHANGED <<mem, notBuffer>>

(* the native runtime produces a buffer object of its own *)
NativeBufferProduce(hasData, size) ==
    /\ ~halted
    /\ FreeBufHandles # {}
    /\ FreeAllocs # {}
    /\ LET h == MinOf(FreeBufHandles)
           a == MinOf(FreeAllocs) IN
         IF hasData
         THEN /\ mem' = [mem EXCEPT ![a] = [owner |-> "native", size |-> size,
                                            frees |-> <<>>]]
              /\ nbuf' = [nbuf EXCEPT ![h] =
                    [state |-> "live", data |-> a, size |-> size,
                     producer |-> "runtime", orig |-> a, taken |-> NULL,
                     destroyedBy |-> <<>>]]
         ELSE /\ mem' = mem
              /\ nbuf' = [nbuf EXCEPT ![h] =
                    [state |-> "live", data |-> NULL, size |-> size,
                     producer |-> "runtime", orig |-> NULL, taken |-> NULL,
                     destroyedBy |-> <<>>]]
    /\ lastOp' = NoOp
    /\ UNCHANGED <<buffers, halted, notBuffer>>

ImportRefused_NullOnly(got) == got.ptr = NULL

(* from_vaccel_buffer: data.is_null() || size == 0 *)
ImportRefused(got) == got.ptr = NULL \/ got.size = 0

(* Buffer::from_vaccel_buffer(buffer) *)
Buffer_from_vaccel_buffer(w, h) ==
    /\ ~halted
    /\ buffers[w].state = "none"
    /\ \A v \in BufSlots : v < w => buffers[v].state # "none"
    /\ nbuf[h].state = "live"
    /\ nbuf[h].producer = "runtime"
    /\ \A v \in BufSlots : buffers[v].state = "live" => buffers[v].inner # h
    /\ LET got == vaccel_torch_buffer_get_data(nbuf, h) IN
         IF ImportRefused(got)
         THEN /\ buffers' = buffers
              /\ lastOp' = Op("Buffer::from_vaccel_buffer", w, "", "Err(InvalidArgument)", "",
                              <<Call("vaccel_torch_buffer_get_data", h)>>)
         ELSE /\ buffers' = [buffers EXCEPT ![w] =
                    [state |-> "live", inner |-> h, vaccel_owned |-> TRUE]]
              /\ lastOp' = Op("Buffer::from_vaccel_buffer", w, "", "Ok", "",
                              <<Call("vaccel_torch_buffer_get_data", h)>>)
    /\ UNCHANGED <<mem, nbuf, halted, notBuffer>>

(* Buffer::as_slice: re-queries pointer and size from the native handle *)
Buffer_as_slice(w) ==
    /\ ~halted
    /\ buffers[w].state = "live"
    /\ lastOp' = Op("Buffer::as_slice", w, "", "Ok", "",
                    <<Call("vaccel_torch_buffer_get_data", buffers[w].inner)>>)
    /\ UNCHANGED <<mem, nbuf, buffers, halted, notBuffer>>

(* impl Drop for Buffer *)
Buffer_drop(w) ==
    /\ ~halted
    /\ buffers[w].state = "live"
    /\ LET b == buffers[w]
           h == b.inner
           nb1 == IF DropDetaches(b)
                  THEN vaccel_torch_buffer_take_data(nbuf, h)
                  ELSE nbuf
           calls == (IF DropDetaches(b)
                     THEN <<Call("vaccel_torch_buffer_take_data", h)>>
                     ELSE <<>>)
                    \o <<Call("vaccel_torch_buffer_destroy", h)>>
       IN
         /\ mem' = MemAfterFree(mem, FreedByDestroy(nb1, h), "buffer_destroy")
         /\ nbuf' = vaccel_torch_buffer_destroy(nb1, h, "wrapper")
         /\ buffers' = [buffers EXCEPT ![w].state = "dropped"]
         /\ lastOp' = Op("Buffer::drop", w, "", "Ok", "", calls)
    /\ UNCHANGED <<halted, notBuffer>>

(* the native runtime releases a buffer object it produced, and the data it
   allocated for it *)
NativeBufferRelease(h) ==
    /\ ~halted
    /\ nbuf[h].producer = "runtime"
    /\ \A i \in 1..Len(nbuf[h].destroyedBy) : nbuf[h].destroyedBy[i] # "runtime"
    /\ \A v \in BufSlots : buffers[v].state = "live" => buffers[v].inner # h
    /\ mem' = MemAfterFree(mem, {a \in Allocs : nbuf[h].orig = a}, "runtime")
    /\ nbuf' = vaccel_torch_buffer_destroy(nbuf, h, "runtime")
    /\ lastOp' = NoOp
    /\ UNCHANGED <<buffers, halted, notBuffer>>

(* ----------------------------- Buffer claims -------------------------- *)

Has(seq, x) == \E i \in 1..Len(seq) : seq[i] = x

(* C1: a Buffer made from caller bytes detaches the data from the native
   handle (take_data) strictly before it destroys the handle, so the native
   destructor never frees the caller's allocation: that allocation is freed
   by the caller only, at most once. *)
C1_CallerDataDetachedBeforeDestroy ==
    /\ \A a \in Allocs :
          mem[a].owner = "caller" => mem[a].frees \in {<<>>, <<"caller">>}
    /\ (lastOp.op = "Buffer::drop" /\ ~buffers[lastOp.who].vaccel_owned) =>
          lastOp.calls =
            <<Call("vaccel_torch_buffer_take_data", buffers[lastOp.who].inner),
              Call("vaccel_torch_buffer_destroy", buffers[lastOp.who].inner)>>
    /\ \A w \in BufSlots :
          (buffers[w].state = "dropped" /\ ~buffers[w].vaccel_owned) =>
             /\ nbuf[buffers[w].inner].state = "destroyed"
             /\ nbuf[buffers[w].inner].data = NULL
             /\ nbuf[buffers[w].inner].taken = nbuf[buffers[w].inner].orig

(* a Buffer over caller bytes was accessed and dropped, and the caller has
   freed its bytes: one free in all *)
C1_Witness ==
    \E w \in BufSlots :
        /\ buffers[w].state = "dropped"
        /\ ~buffers[w].vaccel_owned
        /\ nbuf[buffers[w].inner].taken # NULL
        /\ mem[nbuf[buffers[w].inner].taken].frees = <<"caller">>

(* C3: an imported wrapper (from_vaccel_buffer) only borrows: going out of
   scope it frees neither the natively owned data nor the handle, so nothing
   is released both by the wrapper and by the native runtime. *)
C3_ImportedOnlyBorrows ==
    /\ \A a \in Allocs :
          mem[a].owner = "native" => ~Has(mem[a].frees, "buffer_destroy")
    /\ \A h \in BufHandles :
          nbuf[h].producer = "runtime" =>
             ~(Has(nbuf[h].destroyedBy, "wrapper") /\
               Has(nbuf[h].destroyedBy, "runtime"))

(* C17: from_vaccel_buffer fails with InvalidArgument exactly when the
   native buffer has a null data pointer or size zero; then no wrapper exists
   and the handle is neither detached nor destroyed; on success the wrapper
   holds the handle with the data recorded as natively owned. *)
C17_BufferImportChecksData ==
    lastOp.op = "Buffer::from_vaccel_buffer" =>
        LET h == lastOp.calls[1].h IN
        /\ lastOp.result \in {"Ok", "Err(InvalidArgument)"}
        /\ (lastOp.result = "Err(InvalidArgument)") <=>
              (nbuf[h].data = NULL \/ nbuf[h].size = 0)
        /\ lastOp.calls = <<Call("vaccel_torch_buffer_get_data", h)>>
        /\ nbuf[h].state = "live"
        /\ nbuf[h].taken = NULL
        /\ nbuf[h].destroyedBy = <<>>
        /\ lastOp.result = "Err(InvalidArgument)" =>
              buffers[lastOp.who].state = "none"
        /\ lastOp.result = "Ok" =>
              /\ buffers[lastOp.who].state = "live"
              /\ buffers[lastOp.who].inner = h
              /\ buffers[lastOp.who].vaccel_owned

(* a native buffer with a data pointer but size zero was refused *)
C17_Witness ==
    /\ lastOp.op = "Buffer::from_vaccel_buffer"
    /\ lastOp.result = "Err(InvalidArgument)"
    /\ nbuf[lastOp.calls[1].h].data # NULL
    /\ nbuf[lastOp.calls[1].h].size = 0

(* ====================== native model objects ========================== *)

VACCEL_OK == "VACCEL_OK"
NativeCodes == {VACCEL_OK, "VACCEL_EINVAL", "VACCEL_ENOENT"}
ErrCodes == NativeCodes \ {VACCEL_OK}

FreshModel == [phase |-> "unalloc", source |-> "none", resource |-> 0,
               registerCalls |-> 0, destroyCalls |-> 0, released |-> 0]

FreeModelHandles == {h \in MHandles : nmodel[h].phase = "unalloc"}

(* model-allocate() -> handle *)
vaccel_torch_saved_model_new(nm, h) ==
    [nm EXCEPT ![h].phase = "Unregistered"]

(* the outcome codes a native call on handle h can return: a null handle and
   a destroyed (terminal) model are refused *)
NativeOutcomes(h) ==
    IF h = NULL THEN ErrCodes
    ELSE IF nmodel[h].phase = "Destroyed" THEN ErrCodes
    ELSE NativeCodes

(* model-set-path(handle, string) / model-set-bytes(handle, pointer, size) *)
NativeSetSource(nm, h, kind, code) ==
    IF h = NULL \/ code # VACCEL_OK THEN nm
    ELSE [nm EXCEPT ![h].source = kind,
                    ![h].phase = IF nm[h].phase = "Unregistered"
                                 THEN "Sourced" ELSE nm[h].phase]

vaccel_torch_saved_model_set_path(nm, h, code) ==
    NativeSetSource(nm, h, "path", code)

vaccel_torch_saved_model_set_model(nm, h, code) ==
    NativeSetSource(nm, h, "bytes", code)

(* model-register(handle) -> outcome-code: on Ok an identity is assigned *)
vaccel_torch_saved_model_register(nm, h, code) ==
    IF h = NULL THEN nm
    ELSE IF code # VACCEL_OK
    THEN [nm EXCEPT ![h].registerCalls = nm[h].registerCalls + 1]
    ELSE [nm EXCEPT ![h].registerCalls = nm[h].registerCalls + 1,
                    ![h].phase = "Registered",
                    ![h].resource = h]

(* model-destroy(handle) -> outcome-code: on Ok the registered resource is
   released and the model is Destroyed *)
vaccel_torch_saved_model_destroy(nm, h, code) ==
    IF h = NULL THEN nm
    ELSE IF code = VACCEL_OK /\ nm[h].phase = "Registered"
    THEN [nm EXCEPT ![h].destroyCalls = nm[h].destroyCalls + 1,
                    ![h].phase = "Destroyed",
                    ![h].resource = 0,
                    ![h].released = nm[h].released + 1]
    ELSE [nm EXCEPT ![h].destroyCalls = nm[h].destroyCalls + 1]

(* model-get-identity(handle) -> identity; negative when there is none *)
vaccel_torch_saved_model_id(nm, h) ==
    IF h = NULL THEN -1
    ELSE IF nm[h].resource = 0 THEN -1
    ELSE nm[h].resource

(* VaccelId::from / VaccelId::has_id: an identity is present when positive *)
VaccelId_from(i) ==
    IF i > 0 THEN [has |-> TRUE, id |-> i] ELSE [has |-> FALSE, id |-> 0]

has_id(v) == v.has

(* the lifecycle state of the native object behind a handle *)
PhaseOf(h) == IF h = NULL THEN "null" ELSE nmodel[h].phase

(* ============================ SavedModel ============================== *)

(* SavedModel::id *)
SavedModel_id(m) ==
    VaccelId_from(vaccel_torch_saved_model_id(nmodel, models[m].inner))

SavedModel_initialized_Inverted(m) == ~has_id(SavedModel_id(m))

(* SavedModel::initialized *)
SavedModel_initialized(m) == has_id(SavedModel_id(m))

DestroySkips_Never(m) == FALSE

(* destory returns Ok(()) early, without a native call, when the model is
   not initialized *)
DestroySkips(m) == ~SavedModel_initialized(m)

(* match code { VACCEL_OK => Ok, err => Err(Error::Runtime(err)) } *)
RuntimeResult(code) == IF code = VACCEL_OK THEN "Ok" ELSE "Err(Runtime)"

RuntimeCode(code) == IF code = VACCEL_OK THEN "" ELSE code

(* SavedModel::new *)
SavedModel_new(m, ok) ==
    /\ ~halted
    /\ models[m].state = "none"
    /\ \A v \in MSlots : v < m => models[v].state # "none"
    /\ FreeModelHandles # {}
    /\ IF ok
       THEN LET h == MinOf(FreeModelHandles) IN
            /\ nmodel' = vaccel_torch_saved_model_new(nmodel, h)
            /\ models' = [models EXCEPT ![m] = [state |-> "held", inner |-> h]]
            /\ lastOp' = Op("SavedModel::new", m, "unalloc", "Ok", "",
                            <<Call("vaccel_torch_saved_model_new", h)>>)
       ELSE /\ nmodel' = nmodel
            /\ models' = [models EXCEPT ![m] = [state |-> "held", inner |-> NULL]]
            /\ lastOp' = Op("SavedModel::new", m, "null", "Ok", "",
                            <<Call("vaccel_torch_saved_model_new", NULL)>>)
    /\ UNCHANGED <<halted, notModel>>

(* SavedModel::destory *)
SavedModel_destory(m, code) ==
    /\ ~halted
    /\ models[m].state = "held"
    /\ LET h == models[m].inner
           idq == CallR("vaccel_torch_saved_model_id", h,
                        vaccel_torch_saved_model_id(nmodel, h))
       IN
         IF DestroySkips(m)
         THEN /\ lastOp' = Op("SavedModel::destory", m, PhaseOf(h), "Ok", "",
                              <<idq>>)
              /\ UNCHANGED nmodel
         ELSE /\ h # NULL => nmodel[h].destroyCalls < MaxNativeCalls
              /\ nmodel' = vaccel_torch_saved_model_destroy(nmodel, h, code)
              /\ lastOp' = Op("SavedModel::destory", m, PhaseOf(h),
                              RuntimeResult(code), RuntimeCode(code),
                              <<idq,
                                CallR("vaccel_torch_saved_model_destroy", h, code)>>)
    /\ UNCHANGED <<models, halted, notModel>>

SetFailed_Never(setCode) == FALSE

(* self.set_path(path)? / self.set_protobuf(&protobuf)?: a non-Ok code of the
   native set call returns Err(Runtime(code)) from the whole operation *)
SetFailed(setCode) == setCode # VACCEL_OK

(* register after the source was attached; on Err the model, taken by value,
   is dropped inside the call *)
RegisterStep(op, m, pre, nm1, setCall, regCode) ==
    LET h == models[m].inner IN
    /\ nmodel' = vaccel_torch_saved_model_register(nm1, h, regCode)
    /\ models' = IF regCode = VACCEL_OK THEN models
                 ELSE [models EXCEPT ![m].state = "gone"]
    /\ lastOp' = Op(op, m, pre, RuntimeResult(regCode), RuntimeCode(regCode),
                    <<setCall,
                      CallR("vaccel_torch_saved_model_register", h, regCode)>>)

(* SavedModel::from_export_dir, with SavedModel::set_path *)
SavedModel_from_export_dir(m, pathOk, setCode, regCode) ==
    /\ ~halted
    /\ models[m].state = "held"
    /\ LET h == models[m].inner
           pre == PhaseOf(h)
           setCall == CallR("vaccel_torch_saved_model_set_path", h, setCode)
       IN
         /\ h # NULL => nmodel[h].registerCalls < MaxNativeCalls
         /\ IF ~pathOk
            THEN \* the path has no native string form: no native call is made
                 /\ models' = [models EXCEPT ![m].state = "gone"]
                 /\ lastOp' = Op("SavedModel::from_export_dir", m, pre,
                                 "Err(InvalidArgument)", "", <<>>)
                 /\ UNCHANGED nmodel
            ELSE /\ setCode \in NativeOutcomes(h)
                 /\ IF SetFailed(setCode)
                    THEN /\ models' = [models EXCEPT ![m].state = "gone"]
                         /\ lastOp' = Op("SavedModel::from_export_dir", m, pre,
                                         RuntimeResult(setCode),
                                         RuntimeCode(setCode), <<setCall>>)
                         /\ UNCHANGED nmodel
                    ELSE RegisterStep("SavedModel::from_export_dir", m, pre,
                            vaccel_torch_saved_model_set_path(nmodel, h, setCode),
                            setCall, regCode)
    /\ UNCHANGED <<halted, notModel>>

(* SavedModel::from_in_memory, with SavedModel::set_protobuf *)
SavedModel_from_in_memory(m, setCode, regCode) ==
    /\ ~halted
    /\ models[m].state = "held"
    /\ LET h == models[m].inner
           pre == PhaseOf(h)
           setCall == CallR("vaccel_torch_saved_model_set_model", h, setCode)
       IN
         /\ h # NULL => nmodel[h].registerCalls < MaxNativeCalls
         /\ setCode \in NativeOutcomes(h)
         /\ IF SetFailed(setCode)
            THEN /\ models' = [models EXCEPT ![m].state = "gone"]
                 /\ lastOp' = Op("SavedModel::from_in_memory", m, pre,
                                 RuntimeResult(setCode), RuntimeCode(setCode),
                                 <<setCall>>)
                 /\ UNCHANGED nmodel
            ELSE RegisterStep("SavedModel::from_in_memory", m, pre,
                    vaccel_torch_saved_model_set_model(nmodel, h, setCode),
                    setCall, regCode)
    /\ UNCHANGED <<halted, notModel>>

(* impl Resource for SavedModel: destroy(&mut self) { self.destroy() }. The
   inherent method is named destory, so self.destroy() is this trait method
   again: the call recurses without end and never returns (the stack runs
   out, or the build turns the tail call into a loop); SavedModel::destory
   and the native model-destroy are never reached *)
Resource_destroy(m) ==
    /\ ~halted
    /\ models[m].state = "held"
    /\ halted' = TRUE
    /\ lastOp' = Op("Resource::destroy", m, PhaseOf(models[m].inner),
                    "no return", "", <<>>)
    /\ UNCHANGED <<nmodel, models, notModel>>

(* a SavedModel the caller holds goes out of scope: the type has no Drop
   implementation, so nothing is called *)
SavedModel_scope_exit(m) ==
    /\ ~halted
    /\ models[m].state = "held"
    /\ models' = [models EXCEPT ![m].state = "gone"]
    /\ lastOp' = Op("SavedModel::scope_exit", m, PhaseOf(models[m].inner),
                    "Ok", "", <<>>)
    /\ UNCHANGED <<nmodel, halted, notModel>>

(* --------------------------- SavedModel claims ------------------------ *)

RegistrationOps == {"SavedModel::from_export_dir", "SavedModel::from_in_memory"}

DestructionOps == {"Tensor::drop", "Buffer::drop", "SavedModel::destory"}

MadeCall(fn) == \E i \in 1..Len(lastOp.calls) : lastOp.calls[i].fn = fn

(* C4: id() reports an identity, and initialized() is true, exactly when the
   model is Registered: none for a fresh model, one after a registration
   that returned Ok, none after a destroy that returned Ok. *)
C4_IdentityIffRegistered ==
    /\ \A m \in MSlots :
          models[m].state # "none" =>
            /\ SavedModel_initialized(m) <=>
                  (PhaseOf(models[m].inner) = "Registered")
            /\ SavedModel_id(m).has <=>
                  (PhaseOf(models[m].inner) = "Registered")
    /\ lastOp.op = "SavedModel::new" => ~SavedModel_id(lastOp.who).has
    /\ (lastOp.op \in RegistrationOps /\ lastOp.result = "Ok") =>
          /\ SavedModel_id(lastOp.who).has
          /\ SavedModel_id(lastOp.who).id > 0
    /\ (lastOp.op = "SavedModel::destory" /\ lastOp.result = "Ok") =>
          ~SavedModel_initialized(lastOp.who)

(* one model is registered and reports its identity while another has been
   destroyed and reports none *)
C4_Witness ==
    \E m1, m2 \in MSlots :
        /\ models[m1].state = "held" /\ models[m2].state = "held"
        /\ PhaseOf(models[m1].inner) = "Registered"
        /\ SavedModel_initialized(m1)
        /\ PhaseOf(models[m2].inner) = "Destroyed"
        /\ ~SavedModel_initialized(m2)

(* C5: when native register returns a non-Ok code the call reports that code
   as Runtime(code), and the model stays Sourced (no identity) and in the
   caller's hands, eligible for another registration attempt. *)
C5_FailedRegistrationKeepsModel ==
    (/\ lastOp.op \in RegistrationOps
     /\ lastOp.pre \in {"Unregistered", "Sourced"}
     /\ Len(lastOp.calls) = 2
     /\ lastOp.calls[2].ret # VACCEL_OK) =>
        /\ lastOp.result = "Err(Runtime)"
        /\ lastOp.code = lastOp.calls[2].ret
        /\ PhaseOf(models[lastOp.who].inner) = "Sourced"
        /\ ~SavedModel_id(lastOp.who).has
        /\ models[lastOp.who].state = "held"

(* C6: destroying a model that is not registered (never registered, or
   already destroyed) returns Ok without a native model-destroy call; a
   destroyed handle has been released once. *)
C6_DestroyIdempotent ==
    /\ (lastOp.op = "SavedModel::destory" /\ lastOp.pre # "Registered") =>
          /\ lastOp.result = "Ok"
          /\ ~MadeCall("vaccel_torch_saved_model_destroy")
    /\ \A h \in MHandles :
          /\ nmodel[h].released <= 1
          /\ nmodel[h].phase = "Destroyed" => nmodel[h].released = 1

(* a second destroy, on a model already destroyed, has returned Ok *)
C6_Witness ==
    /\ lastOp.op = "SavedModel::destory"
    /\ lastOp.pre = "Destroyed"
    /\ lastOp.result = "Ok"
    /\ nmodel[models[lastOp.who].inner].destroyCalls = 1

(* C7: once a SavedModel has been destroyed or has gone out of scope, the
   native handle SavedModel::new allocated for it has been released exactly
   once. *)
C7_HandleReleasedOnce ==
    /\ \A m \in MSlots :
          (models[m].state = "gone" /\ models[m].inner # NULL) =>
             nmodel[models[m].inner].released = 1
    /\ (/\ lastOp.op = "SavedModel::destory"
        /\ lastOp.result = "Ok"
        /\ models[lastOp.who].inner # NULL) =>
             nmodel[models[lastOp.who].inner].released = 1

(* C8: destruction of a Tensor, a Buffer or a SavedModel never reports an
   error, and makes no native destroy call on a handle that was never
   allocated. *)
C8_DestructionNeverFails ==
    lastOp.op \in DestructionOps =>
        /\ lastOp.result = "Ok"
        /\ lastOp.pre = "null" =>
              /\ ~MadeCall("vaccel_torch_saved_model_destroy")
              /\ ~MadeCall("vaccel_torch_tensor_destroy")
              /\ ~MadeCall("vaccel_torch_buffer_destroy")

(* C21: Resource::destroy on a SavedModel returns, with the effect and the
   result of the model's own destroy: Ok without a native call when the model
   is not registered, otherwise one native model-destroy call. *)
C21_ResourceDestroyAsDestroy ==
    lastOp.op = "Resource::destroy" =>
        /\ ~halted
        /\ lastOp.result \in {"Ok", "Err(Runtime)"}
        /\ lastOp.pre # "Registered" =>
              /\ lastOp.result = "Ok"
              /\ ~MadeCall("vaccel_torch_saved_model_destroy")
        /\ lastOp.pre = "Registered" =>
              MadeCall("vaccel_torch_saved_model_destroy")

(* C23: in from_export_dir and from_in_memory, when attaching the source
   fails (InvalidArgument for a path with no native string form, before any
   native call; Runtime(code) for a non-Ok code of the native set call),
   native model-register is not called and the model's state, without an
   identity, is what it was. *)
C23_NoRegisterAfterFailedSource ==
    (/\ lastOp.op \in RegistrationOps
     /\ \/ lastOp.calls = <<>>
        \/ lastOp.calls[1].ret # VACCEL_OK)
    => /\ ~MadeCall("vaccel_torch_saved_model_register")
       /\ lastOp.calls = <<>> =>
             /\ lastOp.op = "SavedModel::from_export_dir"
             /\ lastOp.result = "Err(InvalidArgument)"
       /\ lastOp.calls # <<>> =>
             /\ Len(lastOp.calls) = 1
             /\ lastOp.result = "Err(Runtime)"
             /\ lastOp.code = lastOp.calls[1].ret
       /\ PhaseOf(models[lastOp.who].inner) = lastOp.pre
       /\ lastOp.pre \in {"Unregistered", "Sourced"} =>
             ~SavedModel_id(lastOp.who).has

(* native set-path returned a non-Ok code for a fresh model *)
C23_Witness ==
    /\ lastOp.op = "SavedModel::from_export_dir"
    /\ lastOp.pre = "Unregistered"
    /\ Len(lastOp.calls) = 1
    /\ lastOp.calls[1].fn = "vaccel_torch_saved_model_set_path"
    /\ lastOp.calls[1].ret = "VACCEL_ENOENT"
    /\ lastOp.result = "Err(Runtime)"

(* ====================== element types and tags ======================== *)

(* enum DataType; UnknownValue carries the native code *)
DT(v) == [v |-> v, c |-> ""]
UnknownValue(c) == [v |-> "UnknownValue", c |-> c]

(* DataType::to_int: the match has arms for these variants only *)
to_int(dt) ==
    CASE dt.v = "Float" -> "VACCEL_TORCH_FLOAT"
      [] dt.v = "Int32" -> "VACCEL_TORCH_INT"
      [] dt.v = "UInt8" -> "VACCEL_TORCH_BYTE"
      [] dt.v = "Int16" -> "VACCEL_TORCH_SHORT"
      [] dt.v = "Int8" -> "VACCEL_TORCH_CHAR"
      [] dt.v = "Int64" -> "VACCEL_TORCH_LONG"
      [] dt.v = "Half" -> "VACCEL_TORCH_HALF"
      [] dt.v = "UnknownValue" -> dt.c
      [] OTHER -> "no match arm"

(* DataType::from_int *)
from_int(val) ==
    CASE val = "VACCEL_TORCH_FLOAT" -> DT("Float")
      [] val = "VACCEL_TORCH_INT" -> DT("Int32")
      [] val = "VACCEL_TORCH_BYTE" -> DT("UInt8")
      [] val = "VACCEL_TORCH_SHORT" -> DT("Int16")
      [] val = "VACCEL_TORCH_CHAR" -> DT("Int8")
      [] val = "VACCEL_TORCH_LONG" -> DT("Int64")
      [] val = "VACCEL_TORCH_HALF" -> DT("Half")
      [] OTHER -> UnknownValue(val)

(* impl TensorType for f32 .. bool: data_type() *)
data_type(ty) ==
    CASE ty = "f32" -> DT("Float")
      [] ty = "f64" -> DT("Double")
      [] ty = "i32" -> DT("Int32")
      [] ty = "u8" -> DT("UInt8")
      [] ty = "i16" -> DT("Int16")
      [] ty = "i8" -> DT("Int8")
      [] ty = "i64" -> DT("Int64")
      [] ty = "u16" -> DT("UInt16")
      [] ty = "u32" -> DT("UInt32")
      [] ty = "u64" -> DT("UInt64")
      [] ty = "bool" -> DT("Bool")

(* impl TensorType: zero(); 0, 0.0 and false are all written 0 here *)
zero(ty) == 0

(* std::mem::size_of::<T>() *)
size_of(ty) ==
    CASE ty \in {"u8", "i8", "bool"} -> 1
      [] ty \in {"i16", "u16"} -> 2
      [] ty \in {"f32", "i32", "u32"} -> 4
      [] ty \in {"f64", "i64", "u64"} -> 8

(* fn product(values: &[u64]) -> u64 *)
RECURSIVE product(_)
product(values) ==
    IF values = <<>> THEN 1 ELSE Head(values) * product(Tail(values))

(* the element types, dimension sequences and element sequences tried *)
ElemTypes == {"u8", "f32"}
NativeTags == {"VACCEL_TORCH_BYTE", "VACCEL_TORCH_FLOAT"}
DimChoices == {<<>>, <<2>>, <<2, 0>>}
Values == {0, 1}
DataInputs == UNION {[1..n -> Values] : n \in 0..MaxDataLen}

(* every type with a TensorType impl, and the native tags: those DataType
   names, and one code it does not name *)
AllElemTypes == {"f32", "f64", "i8", "i16", "i32", "i64", "u8", "u16", "u32",
                 "u64", "bool"}
AllTags == {"VACCEL_TORCH_FLOAT", "VACCEL_TORCH_INT", "VACCEL_TORCH_BYTE",
            "VACCEL_TORCH_SHORT", "VACCEL_TORCH_CHAR", "VACCEL_TORCH_LONG",
            "VACCEL_TORCH_HALF", "unnamed code"}

(* ====================== native tensor objects ========================= *)

NullPtr == [kind |-> "null", id |-> 0]
VecPtr(t) == [kind |-> "vec", id |-> t]
NatPtr(h) == [kind |-> "nat", id |-> h]

FreshTensor == [state |-> "unalloc", dims |-> <<>>, data_type |-> "",
                data |-> NullPtr, size |-> 0, owned |-> FALSE, buf |-> <<>>,
                producer |-> "none", destroyedBy |-> <<>>]

FreeTensorHandles == {h \in THandles : ntensor[h].state = "unalloc"}

(* tensor-allocate(dimension-count, dimensions, element-type) -> handle:
   a tensor without data *)
vaccel_torch_tensor_new(nt, h, dims, tag) ==
    IF h = NULL THEN nt
    ELSE [nt EXCEPT ![h] = [state |-> "live", dims |-> dims, data_type |-> tag,
                            data |-> NullPtr, size |-> 0, owned |-> FALSE,
                            buf |-> <<>>, producer |-> "wrapper",
                            destroyedBy |-> <<>>]]

(* tensor-set-data(handle, pointer, size): refused on a null handle *)
vaccel_torch_tensor_set_data(nt, h, ptr, size) ==
    IF h = NULL THEN nt
    ELSE [nt EXCEPT ![h].data = ptr, ![h].size = size]

(* tensor-get-data(handle) -> pointer *)
vaccel_torch_tensor_get_data(nt, h) == nt[h].data

(* tensor-destroy(handle): the object is gone; what remains here is who
   produced it and who destroyed it *)
vaccel_torch_tensor_destroy(nt, h, by) ==
    IF h = NULL THEN nt
    ELSE [nt EXCEPT ![h] = [FreshTensor EXCEPT
                               !.state = "destroyed",
                               !.producer = nt[h].producer,
                               !.destroyedBy = Append(nt[h].destroyedBy, by)]]

(* the element size the runtime uses for a tag *)
TagSize(tag) ==
    CASE tag \in {"VACCEL_TORCH_BYTE", "VACCEL_TORCH_CHAR"} -> 1
      [] tag \in {"VACCEL_TORCH_SHORT", "VACCEL_TORCH_HALF"} -> 2
      [] tag = "VACCEL_TORCH_LONG" -> 8
      [] OTHER -> 4

(* the elements stored where a data pointer points *)
Pointee(p) ==
    IF p.kind = "vec" THEN tensors[p.id].data
    ELSE IF p.kind = "nat" THEN ntensor[p.id].buf
    ELSE <<>>

(* ============================ Tensor<T> =============================== *)

Fill(n, v) == [i \in 1..n |-> v]

(* an element read past the end of the native data region *)
Indeterminate == -1

FreshWrapper == [state |-> "none", ty |-> "", inner |-> NULL, dims |-> <<>>,
                 data_count |-> 0, data |-> <<>>, h0 |-> NULL]

(* impl Deref for Tensor<T>: the empty slice for a null handle, else
   data_count elements at the native data pointer; fault: the read goes
   through a null data pointer *)
Deref(t) ==
    LET tn == tensors[t] IN
    IF tn.inner = NULL THEN [fault |-> FALSE, elems |-> <<>>]
    ELSE LET p == ntensor[tn.inner].data IN
         IF p.kind = "null"
         THEN [fault |-> tn.data_count > 0, elems |-> <<>>]
         ELSE [fault |-> FALSE, elems |-> SubSeq(Pointee(p), 1, tn.data_count)]

TensorDropSkips_Never(tn) == FALSE

(* Drop returns at once when inner is null *)
TensorDropSkips(tn) == tn.inner = NULL

(* impl Drop for Tensor<T>: the wrapper, the native objects and the native
   calls after drop(&mut self) *)
TensorAfterDrop(tn) ==
    [tn EXCEPT !.state = "dropped", !.data = <<>>,
               !.inner = IF TensorDropSkips(tn) THEN tn.inner ELSE NULL]

NativeAfterDrop(nt, tn) ==
    IF TensorDropSkips(tn) THEN nt
    ELSE vaccel_torch_tensor_destroy(nt, tn.inner, "wrapper")

DropCalls(tn) ==
    IF TensorDropSkips(tn) THEN <<>>
    ELSE <<Call("vaccel_torch_tensor_destroy", tn.inner)>>

HandlePhase(h) == IF h = NULL THEN "null" ELSE ntensor[h].state

(* Tensor::new(dims) *)
Tensor_new(t, ty, dims, ok) ==
    /\ ~halted
    /\ tensors[t].state = "none"
    /\ \A v \in TSlots : v < t => tensors[v].state # "none"
    /\ FreeTensorHandles # {}
    /\ LET data_count == product(dims)
           data == Fill(data_count, zero(ty))
           inner == IF ok THEN MinOf(FreeTensorHandles) ELSE NULL
           nt1 == vaccel_torch_tensor_new(ntensor, inner, dims,
                                          to_int(data_type(ty)))
       IN
         /\ ntensor' = vaccel_torch_tensor_set_data(nt1, inner, VecPtr(t),
                                                    Len(data) * size_of(ty))
         /\ tensors' = [tensors EXCEPT ![t] =
               [state |-> "live", ty |-> ty, inner |-> inner, dims |-> dims,
                data_count |-> data_count, data |-> data, h0 |-> inner]]
         /\ lastOp' = Op("Tensor::new", t, "unalloc", "Ok", "",
                         <<Call("vaccel_torch_tensor_new", inner),
                           Call("vaccel_torch_tensor_set_data", inner)>>)
    /\ UNCHANGED <<halted, notTensor>>

(* the native runtime produces a tensor of its own, with data it owns (every
   element 1) or with no data *)
NativeTensorProduce(dims, tag, withData) ==
    /\ ~halted
    /\ FreeTensorHandles # {}
    /\ LET h == MinOf(FreeTensorHandles) IN
         ntensor' = [ntensor EXCEPT ![h] =
            [state |-> "live", dims |-> dims, data_type |-> tag,
             data |-> IF withData THEN NatPtr(h) ELSE NullPtr,
             size |-> IF withData THEN product(dims) * TagSize(tag) ELSE 0,
             owned |-> withData,
             buf |-> IF withData THEN Fill(product(dims), 1) ELSE <<>>,
             producer |-> "runtime", destroyedBy |-> <<>>]]
    /\ lastOp' = NoOp
    /\ UNCHANGED <<tensors, halted, notTensor>>

TypeMismatch_Never(tag, ty) == FALSE

(* the type test of from_vaccel_tensor: from_int of the recorded tag against
   T::data_type() *)
TypeMismatch(tag, ty) == from_int(tag) # data_type(ty)

(* Tensor::from_vaccel_tensor(tensor); fault: whether a read past the end of
   the native data stops the process *)
Tensor_from_vaccel_tensor(t, ty, h, fault) ==
    /\ ~halted
    /\ tensors[t].state = "none"
    /\ \A v \in TSlots : v < t => tensors[v].state # "none"
    /\ h # NULL =>
          /\ ntensor[h].state = "live"
          /\ \A v \in TSlots : tensors[v].state = "live" => tensors[v].inner # h
    /\ IF h = NULL
       THEN /\ lastOp' = OpArg("Tensor::from_vaccel_tensor", t, "null",
                               "Err(InvalidArgument)", <<>>,
                               [h |-> h, ty |-> ty])
            /\ UNCHANGED <<tensors, halted>>
       ELSE IF TypeMismatch(ntensor[h].data_type, ty)
       THEN /\ lastOp' = OpArg("Tensor::from_vaccel_tensor", t, "live",
                               "Err(InvalidArgument)", <<>>,
                               [h |-> h, ty |-> ty])
            /\ UNCHANGED <<tensors, halted>>
       ELSE LET dims == ntensor[h].dims
                data_count == product(dims)
                ptr == vaccel_torch_tensor_get_data(ntensor, h)
                there == Pointee(ptr)
                n == data_count * size_of(ty)
                past == ptr.kind # "null" /\ n > Len(there)
                data == IF ptr.kind = "null" THEN Fill(data_count, zero(ty))
                        ELSE [i \in 1..n |-> IF i <= Len(there) THEN there[i]
                                             ELSE Indeterminate]
                calls == <<Call("vaccel_torch_tensor_get_data", h)>>
            IN
              /\ fault => past
              /\ IF fault
                 THEN /\ halted' = TRUE
                      /\ lastOp' = OpArg("Tensor::from_vaccel_tensor", t,
                                         "live", "segv", calls,
                                         [h |-> h, ty |-> ty])
                      /\ UNCHANGED tensors
                 ELSE /\ tensors' = [tensors EXCEPT ![t] =
                            [state |-> "live", ty |-> ty, inner |-> h,
                             dims |-> dims, data_count |-> data_count,
                             data |-> data, h0 |-> h]]
                      /\ lastOp' = OpArg("Tensor::from_vaccel_tensor", t,
                                         "live", "Ok", calls,
                                         [h |-> h, ty |-> ty])
                      /\ UNCHANGED halted
    /\ UNCHANGED <<ntensor, notTensor>>

(* the elements after e.clone_from(v) over iter_mut().zip(data) *)
WriteElems(old, data) ==
    [i \in 1..Len(old) |-> IF i <= Len(data) THEN data[i] ELSE old[i]]

WithDataErr_Keeps(tn) == tn

(* with_data takes self by value: on the early Err return self goes out of
   scope inside the call, which runs Drop *)
WithDataErr(tn) == TensorAfterDrop(tn)

(* the record of a with_data call; written: how many elements it stored *)
WithDataOp(t, pre, result, calls, data, written) ==
    [op |-> "Tensor::with_data", who |-> t, pre |-> pre, result |-> result,
     code |-> "", calls |-> calls, arg |-> data, written |-> written]

(* Tensor::with_data(self, data) *)
Tensor_with_data(t, data) ==
    /\ ~halted
    /\ tensors[t].state = "live"
    /\ LET tn == tensors[t]
           pre == HandlePhase(tn.inner)
           p == IF tn.inner = NULL THEN NullPtr ELSE ntensor[tn.inner].data
       IN
         IF Len(data) # tn.data_count
         THEN \* Err: self goes out of scope inside the call
              /\ tensors' = [tensors EXCEPT ![t] = WithDataErr(tn)]
              /\ ntensor' = NativeAfterDrop(ntensor, tn)
              /\ lastOp' = WithDataOp(t, pre, "Err(InvalidArgument)",
                                      DropCalls(tn), data, 0)
              /\ UNCHANGED halted
         ELSE IF tn.inner = NULL
         THEN \* deref_mut gives the empty slice: nothing is written
              /\ lastOp' = WithDataOp(t, pre, "Ok", <<>>, data, 0)
              /\ UNCHANGED <<tensors, ntensor, halted>>
         ELSE IF p.kind = "null"
         THEN \* the slice starts at the null data pointer
              IF tn.data_count > 0
              THEN /\ halted' = TRUE
                   /\ lastOp' = WithDataOp(t, pre, "segv", <<>>, data, 0)
                   /\ UNCHANGED <<tensors, ntensor>>
              ELSE /\ lastOp' = WithDataOp(t, pre, "Ok", <<>>, data, 0)
                   /\ UNCHANGED <<tensors, ntensor, halted>>
         ELSE /\ IF p.kind = "vec"
                 THEN /\ tensors' = [tensors EXCEPT ![p.id].data =
                                        WriteElems(tensors[p.id].data, data)]
                      /\ UNCHANGED ntensor
                 ELSE /\ ntensor' = [ntensor EXCEPT ![p.id].buf =
                                        WriteElems(ntensor[p.id].buf, data)]
                      /\ UNCHANGED tensors
              /\ lastOp' = WithDataOp(t, pre, "Ok", <<>>, data, Len(data))
              /\ UNCHANGED halted
    /\ UNCHANGED notTensor

(* impl Drop for Tensor<T>; the handler may be entered again on a value
   already dropped (ManuallyDrop::drop, ptr::drop_in_place) *)
Tensor_drop(t) ==
    /\ ~halted
    /\ tensors[t].state \in {"live", "dropped"}
    /\ tensors' = [tensors EXCEPT ![t] = TensorAfterDrop(tensors[t])]
    /\ ntensor' = NativeAfterDrop(ntensor, tensors[t])
    /\ lastOp' = Op("Tensor::drop", t, HandlePhase(tensors[t].inner), "Ok", "",
                    DropCalls(tensors[t]))
    /\ UNCHANGED <<halted, notTensor>>

(* ------------------- element access and the wire form ----------------- *)

(* t[i] = v through DerefMut; i counts from 1 here *)
Tensor_index_write(t, i, v) ==
    /\ ~halted
    /\ tensors[t].state = "live"
    /\ LET tn == tensors[t]
           pre == HandlePhase(tn.inner)
           p == IF tn.inner = NULL THEN NullPtr ELSE ntensor[tn.inner].data
           len == IF tn.inner = NULL THEN 0 ELSE tn.data_count
           arg == [i |-> i, v |-> v]
       IN
         IF i > len
         THEN \* index out of bounds of the slice
              /\ halted' = TRUE
              /\ lastOp' = OpArg("Tensor::index_mut", t, pre, "panic", <<>>, arg)
              /\ UNCHANGED <<tensors, ntensor>>
         ELSE IF p.kind = "null"
         THEN /\ halted' = TRUE
              /\ lastOp' = OpArg("Tensor::index_mut", t, pre, "segv", <<>>, arg)
              /\ UNCHANGED <<tensors, ntensor>>
         ELSE /\ IF p.kind = "vec"
                 THEN /\ tensors' = [tensors EXCEPT ![p.id].data[i] = v]
                      /\ UNCHANGED ntensor
                 ELSE /\ ntensor' = [ntensor EXCEPT ![p.id].buf[i] = v]
                      /\ UNCHANGED tensors
              /\ lastOp' = OpArg("Tensor::index_mut", t, pre, "Ok", <<>>, arg)
              /\ UNCHANGED halted
    /\ UNCHANGED <<wireVars, notWire>>

(* the native runtime writes element i of the data of a live tensor *)
NativeTensorWrite(h, i, v) ==
    /\ ~halted
    /\ ntensor[h].state = "live"
    /\ LET p == ntensor[h].data IN
         /\ p.kind # "null"
         /\ i <= Len(Pointee(p))
         /\ IF p.kind = "vec"
            THEN /\ tensors' = [tensors EXCEPT ![p.id].data[i] = v]
                 /\ UNCHANGED ntensor
            ELSE /\ ntensor' = [ntensor EXCEPT ![p.id].buf[i] = v]
                 /\ UNCHANGED tensors
    /\ lastOp' = NoOp
    /\ UNCHANGED <<halted, wireVars, notWire>>

(* the bytes of a sequence of elements of w bytes each: the value in the
   first byte (values here fit one byte), an indeterminate element gives
   indeterminate bytes *)
ToBytes(elems, w) ==
    [k \in 1..(Len(elems) * w) |->
        LET e == elems[((k - 1) \div w) + 1] IN
        IF e = Indeterminate THEN Indeterminate
        ELSE IF (k - 1) % w = 0 THEN e ELSE 0]

(* the width of the elements where a data pointer points *)
PointeeWidth(p) ==
    IF p.kind = "vec" THEN size_of(tensors[p.id].ty)
    ELSE IF p.kind = "nat" THEN TagSize(ntensor[p.id].data_type)
    ELSE 1

(* slice::from_raw_parts(data as *const u8, size): size bytes at the data
   pointer of native tensor h *)
NativeBytes(h) ==
    LET p == ntensor[h].data
        there == ToBytes(Pointee(p), PointeeWidth(p))
    IN [k \in 1..ntensor[h].size |->
           IF k <= Len(there) THEN there[k] ELSE Indeterminate]

(* TorchDataType::from_i32: Some for the codes the wire enum names *)
TorchDataType_from_i32(v) ==
    IF v \in AllTags \ {"unnamed code"} THEN <<v>> ELSE <<>>

NoWire == [state |-> "none", dims |-> <<>>, field_type |-> "", data |-> <<>>]

TorchTensor(dims, field_type, data) ==
    [state |-> "live", dims |-> dims, field_type |-> field_type, data |-> data]

(* Tensor::as_grpc(&self) *)
Tensor_as_grpc(t, w) ==
    /\ ~halted
    /\ tensors[t].state = "live"
    /\ wire[w].state = "none"
    /\ \A u \in WSlots : u < w => wire[u].state # "none"
    /\ LET tn == tensors[t]
           pre == [phase |-> HandlePhase(tn.inner), tn |-> tn, nt |-> ntensor]
           ft == TorchDataType_from_i32(to_int(data_type(tn.ty)))
       IN
         IF tn.inner = NULL
         THEN \* (*self.inner).data through a null handle
              /\ halted' = TRUE
              /\ lastOp' = OpArg("Tensor::as_grpc", t, pre, "segv", <<>>, w)
              /\ UNCHANGED wire
         ELSE IF ntensor[tn.inner].data.kind = "null" /\ ntensor[tn.inner].size > 0
         THEN /\ halted' = TRUE
              /\ lastOp' = OpArg("Tensor::as_grpc", t, pre, "segv", <<>>, w)
              /\ UNCHANGED wire
         ELSE IF ft = <<>>
         THEN \* unwrap() of None
              /\ halted' = TRUE
              /\ lastOp' = OpArg("Tensor::as_grpc", t, pre, "panic", <<>>, w)
              /\ UNCHANGED wire
         ELSE /\ wire' = [wire EXCEPT ![w] =
                    TorchTensor(tn.dims, ft[1], NativeBytes(tn.inner))]
              /\ lastOp' = OpArg("Tensor::as_grpc", t, pre, "Ok", <<>>, w)
              /\ UNCHANGED halted
    /\ UNCHANGED <<tensorVars, wnative, notWire>>

(* the native tensor inner() builds from a wire tensor: its dims, the value
   of its field_type, and a copy of its bytes with their length *)
NativeOfWire(w) ==
    [of |-> w, dims |-> wire[w].dims, data_type |-> wire[w].field_type,
     data |-> wire[w].data, size |-> Len(wire[w].data)]

AfterInner_Reuse(made, tensor) == IF made = <<>> THEN <<tensor>> ELSE made

(* the native tensors in existence after inner() made one more: the copy is
   forgotten (mem::forget), the handle returned, nothing is destroyed *)
AfterInner(made, tensor) == Append(made, tensor)

(* impl TensorAny for TorchTensor: inner(&self) and inner_mut(&mut self) have
   the same body; ok: whether tensor-allocate returns a handle *)
TorchTensor_inner(w, ok) ==
    /\ ~halted
    /\ wire[w].state = "live"
    /\ Len(wnative) < MaxInnerCalls
    /\ LET inner == IF ok THEN Len(wnative) + 1 ELSE NULL IN
         /\ wnative' = IF ok THEN AfterInner(wnative, NativeOfWire(w))
                       ELSE wnative
         /\ lastOp' = OpArg("TorchTensor::inner", w, "", "Ok",
                            <<Call("vaccel_torch_tensor_new", inner),
                              Call("vaccel_torch_tensor_set_data", inner)>>,
                            inner)
    /\ UNCHANGED <<tensorVars, wire, halted, notWire>>

(* impl From<&ffi::vaccel_torch_tensor> for TorchTensor, on a tensor made by
   TorchTensor::inner *)
TorchTensor_from(i) ==
    /\ ~halted
    /\ i \in 1..Len(wnative)
    /\ LET tensor == wnative[i]
           ft == TorchDataType_from_i32(tensor.data_type)
       IN
         IF ft = <<>>
         THEN /\ halted' = TRUE
              /\ lastOp' = OpArg("TorchTensor::from", i, "", "panic", <<>>, <<>>)
         ELSE /\ lastOp' = OpArg("TorchTensor::from", i, "", "Ok", <<>>,
                    TorchTensor(tensor.dims, ft[1],
                                SubSeq(tensor.data, 1, tensor.size)))
              /\ UNCHANGED halted
    /\ UNCHANGED <<tensorVars, wireVars, notWire>>

(* ----------------------------- Tensor claims -------------------------- *)

Count(seq, x) == Cardinality({i \in 1..Len(seq) : seq[i] = x})

(* C2: a Tensor's drop calls native tensor-destroy once on an allocated
   handle and makes no native call when the handle is null (never allocated,
   or already released by an earlier drop); no handle is destroyed twice. *)
C2_TensorDestroyedOnce ==
    /\ \A h \in THandles : Count(ntensor[h].destroyedBy, "wrapper") <= 1
    /\ \A t \in TSlots :
          tensors[t].state = "dropped" =>
             /\ tensors[t].inner = NULL
             /\ tensors[t].h0 # NULL =>
                   /\ ntensor[tensors[t].h0].state = "destroyed"
                   /\ Count(ntensor[tensors[t].h0].destroyedBy, "wrapper") = 1
    /\ (lastOp.op = "Tensor::drop" /\ lastOp.pre = "null") => lastOp.calls = <<>>
    /\ (lastOp.op = "Tensor::drop" /\ lastOp.pre # "null") =>
          lastOp.calls =
             <<Call("vaccel_torch_tensor_destroy", tensors[lastOp.who].h0)>>

(* drop ran again on a tensor whose handle the first drop had destroyed, and
   made no native call *)
C2_Witness ==
    /\ lastOp.op = "Tensor::drop"
    /\ lastOp.pre = "null"
    /\ tensors[lastOp.who].h0 # NULL
    /\ ntensor[tensors[lastOp.who].h0].destroyedBy = <<"wrapper">>

(* C9: with_data(data) fails with InvalidArgument exactly when the length of
   data differs from the product of the dimensions; on success the elements
   read back through the tensor are data, and dimensions and handle are as
   before. *)
C9_WithDataSetsElements ==
    lastOp.op = "Tensor::with_data" =>
        /\ lastOp.result \in {"Ok", "Err(InvalidArgument)"}
        /\ (lastOp.result = "Err(InvalidArgument)") <=>
              (Len(lastOp.arg) # product(tensors[lastOp.who].dims))
        /\ lastOp.result = "Ok" =>
              /\ ~Deref(lastOp.who).fault
              /\ Deref(lastOp.who).elems = lastOp.arg
              /\ tensors[lastOp.who].state = "live"
              /\ tensors[lastOp.who].inner = tensors[lastOp.who].h0

(* C10: a tensor fresh from Tensor::new(d) exposes product(d) elements, each
   the zero value of its element type. *)
C10_NewTensorIsZeroFilled ==
    lastOp.op = "Tensor::new" =>
        /\ ~Deref(lastOp.who).fault
        /\ Len(Deref(lastOp.who).elems) = product(tensors[lastOp.who].dims)
        /\ \A i \in 1..Len(Deref(lastOp.who).elems) :
              Deref(lastOp.who).elems[i] = zero(tensors[lastOp.who].ty)

(* C11: Tensor::new fails exactly when the native tensor-allocate call
   returns no handle; then the caller gets no tensor, and tensor-allocate was
   called once. *)
C11_NewFailsIffAllocationFails ==
    lastOp.op = "Tensor::new" =>
        /\ Count([i \in 1..Len(lastOp.calls) |-> lastOp.calls[i].fn],
                 "vaccel_torch_tensor_new") = 1
        /\ (lastOp.result # "Ok") <=> (lastOp.calls[1].h = NULL)
        /\ lastOp.result # "Ok" => tensors[lastOp.who].state = "none"

(* C12: from_vaccel_tensor::<T> fails with InvalidArgument on a null handle
   and on a handle whose recorded tag differs from the tag of T; the failure
   comes before the data pointer is fetched, and no tensor is built. *)
C12_ImportRejectsNullAndMismatch ==
    (/\ lastOp.op = "Tensor::from_vaccel_tensor"
     /\ \/ lastOp.arg.h = NULL
        \/ ntensor[lastOp.arg.h].data_type # to_int(data_type(lastOp.arg.ty)))
    => /\ lastOp.result = "Err(InvalidArgument)"
       /\ lastOp.calls = <<>>
       /\ tensors[lastOp.who].state = "none"
       /\ ~halted

(* a handle with data, of a tag DataType names, was refused for a type with
   another tag *)
C12_Witness ==
    /\ lastOp.op = "Tensor::from_vaccel_tensor"
    /\ lastOp.arg.h # NULL
    /\ lastOp.result = "Err(InvalidArgument)"
    /\ ntensor[lastOp.arg.h].data.kind = "nat"
    /\ ntensor[lastOp.arg.h].data_type = "VACCEL_TORCH_LONG"
    /\ lastOp.arg.ty = "i32"

(* C13: a tensor imported from a handle without native data reads as
   product(dims) zero values, and no operation on it goes through the null
   data pointer. *)
C13_NullDataIsSubstituted ==
    /\ \A t \in TSlots :
          (/\ tensors[t].state = "live"
           /\ tensors[t].inner # NULL
           /\ ntensor[tensors[t].inner].producer = "runtime"
           /\ ntensor[tensors[t].inner].data.kind = "null")
          => /\ ~Deref(t).fault
             /\ Deref(t).elems = Fill(product(tensors[t].dims),
                                      zero(tensors[t].ty))
    /\ lastOp.op = "Tensor::with_data" => lastOp.result # "segv"

(* C14: for every live Tensor the product of its dimensions is its recorded
   element count, the length of its local element copy, and the number of
   elements its view reads from native memory. *)
C14_ElementCountIsProduct ==
    \A t \in TSlots :
        tensors[t].state = "live" =>
           /\ tensors[t].data_count = product(tensors[t].dims)
           /\ Len(tensors[t].data) = product(tensors[t].dims)
           /\ ~Deref(t).fault
           /\ Len(Deref(t).elems) = product(tensors[t].dims)

(* the local copy of an imported tensor with native data is longer than the
   product of its dimensions *)
C14_LocalCopyTooLong ==
    \E t \in TSlots :
        /\ tensors[t].state = "live"
        /\ tensors[t].inner # NULL
        /\ ntensor[tensors[t].inner].data.kind = "nat"
        /\ Len(tensors[t].data) > product(tensors[t].dims)

(* C15: as_grpc gives the tensor's dimensions, type tag and native bytes and
   changes neither the tensor nor the native objects; TorchTensor::inner
   followed by From<&vaccel_torch_tensor> gives the same wire tensor back. *)
C15_WireRoundTrip ==
    /\ lastOp.op = "Tensor::as_grpc" =>
          /\ lastOp.result = "Ok"
          /\ tensors[lastOp.who] = lastOp.pre.tn
          /\ ntensor = lastOp.pre.nt
          /\ wire[lastOp.arg].dims = tensors[lastOp.who].dims
          /\ wire[lastOp.arg].field_type =
                to_int(data_type(tensors[lastOp.who].ty))
          /\ wire[lastOp.arg].data = NativeBytes(tensors[lastOp.who].inner)
    /\ lastOp.op = "TorchTensor::from" =>
          /\ lastOp.result = "Ok"
          /\ lastOp.arg = wire[wnative[lastOp.who].of]

(* the round trip of a tensor with a native handle reproduces it *)
C15_RoundTripOfAllocated ==
    /\ (lastOp.op = "Tensor::as_grpc" /\ lastOp.pre.phase # "null") =>
          /\ lastOp.result = "Ok"
          /\ tensors[lastOp.who] = lastOp.pre.tn
          /\ ntensor = lastOp.pre.nt
          /\ wire[lastOp.arg].dims = tensors[lastOp.who].dims
          /\ wire[lastOp.arg].field_type =
                to_int(data_type(tensors[lastOp.who].ty))
          /\ wire[lastOp.arg].data = NativeBytes(tensors[lastOp.who].inner)
    /\ lastOp.op = "TorchTensor::from" =>
          /\ lastOp.result = "Ok"
          /\ lastOp.arg = wire[wnative[lastOp.who].of]

(* C16: the view of every live Tensor reads the native tensor's data region:
   its elements are the bytes the native side holds (the bytes as_grpc
   emits), a write through the view lands there, and no access faults. *)
C16_ViewIsNativeData ==
    /\ \A t \in TSlots :
          tensors[t].state = "live" =>
             /\ tensors[t].inner # NULL
             /\ ~Deref(t).fault
             /\ ToBytes(Deref(t).elems, size_of(tensors[t].ty)) =
                   NativeBytes(tensors[t].inner)
    /\ lastOp.op \in {"Tensor::index_mut", "Tensor::with_data",
                      "Tensor::as_grpc"} => lastOp.result # "segv"
    /\ (lastOp.op = "Tensor::index_mut" /\ lastOp.result = "Ok") =>
          Deref(lastOp.who).elems[lastOp.arg.i] = lastOp.arg.v

(* the same for tensors that have a native handle with data attached *)
C16_ViewOfBackedTensor ==
    /\ \A t \in TSlots :
          (/\ tensors[t].state = "live"
           /\ tensors[t].inner # NULL
           /\ ntensor[tensors[t].inner].data.kind # "null") =>
             /\ ~Deref(t).fault
             /\ ToBytes(Deref(t).elems, size_of(tensors[t].ty)) =
                   NativeBytes(tensors[t].inner)
    /\ (lastOp.op = "Tensor::index_mut" /\ lastOp.result = "Ok") =>
          Deref(lastOp.who).elems[lastOp.arg.i] = lastOp.arg.v

(* C22: for every element type T the tag Tensor::<T>::new records,
   T::data_type().to_int(), is a native tag and from_int maps it back to
   T::data_type(), so the fresh tensor passes the type test of
   from_vaccel_tensor::<T>; two element types never have the same tag. *)
C22_TagOfEveryElementType ==
    /\ (lastOp.op = "Tensor::new" /\ tensors[lastOp.who].inner # NULL) =>
          LET ty == tensors[lastOp.who].ty
              tag == ntensor[tensors[lastOp.who].inner].data_type
          IN /\ tag = to_int(data_type(ty))
             /\ tag \in AllTags
             /\ from_int(tag) = data_type(ty)
             /\ ~TypeMismatch(tag, ty)
    /\ \A t1, t2 \in AllElemTypes :
          (/\ t1 # t2
           /\ to_int(data_type(t1)) \in AllTags
           /\ to_int(data_type(t2)) \in AllTags)
          => to_int(data_type(t1)) # to_int(data_type(t2))

(* C24: when with_data returns Err(InvalidArgument) it has stored no element,
   and the tensor it was given is gone: dropped inside the call, with one
   native tensor-destroy call on its handle (none when it has no handle). *)
C24_FailedWithDataConsumes ==
    (lastOp.op = "Tensor::with_data" /\ lastOp.result = "Err(InvalidArgument)")
    => /\ lastOp.written = 0
       /\ tensors[lastOp.who].state = "dropped"
       /\ tensors[lastOp.who].inner = NULL
       /\ tensors[lastOp.who].h0 = NULL => lastOp.calls = <<>>
       /\ tensors[lastOp.who].h0 # NULL =>
             /\ lastOp.calls =
                   <<Call("vaccel_torch_tensor_destroy", tensors[lastOp.who].h0)>>
             /\ ntensor[tensors[lastOp.who].h0].state = "destroyed"
             /\ Count(ntensor[tensors[lastOp.who].h0].destroyedBy, "wrapper") = 1

(* with_data refused data of the wrong length for a tensor made by
   Tensor::new with a native handle *)
C24_Witness ==
    /\ lastOp.op = "Tensor::with_data"
    /\ lastOp.result = "Err(InvalidArgument)"
    /\ lastOp.pre = "live"
    /\ ntensor[tensors[lastOp.who].h0].producer = "wrapper"
    /\ ntensor[tensors[lastOp.who].h0].destroyedBy = <<"wrapper">>

(* C25: every call of TorchTensor::inner / inner_mut that gets a handle from
   tensor-allocate adds one new native tensor holding a copy of the wire
   tensor's dims, type and bytes; the native tensors made before stay as
   they are (nothing in this layer destroys or changes them), and the wire
   tensor is unchanged. *)
C25_InnerAllocatesEachCall ==
    [][/\ (lastOp'.op = "TorchTensor::inner" /\ lastOp'.arg # NULL) =>
             /\ wnative' = Append(wnative, NativeOfWire(lastOp'.who))
             /\ lastOp'.arg = Len(wnative')
             /\ \A i \in 1..Len(lastOp'.calls) :
                   lastOp'.calls[i].fn # "vaccel_torch_tensor_destroy"
       /\ lastOp'.op = "TorchTensor::inner" => wire' = wire
       /\ wnative' # wnative =>
             (lastOp'.op = "TorchTensor::inner" /\ lastOp'.arg # NULL)]_vars

(* two calls on one wire tensor have left two native tensors *)
C25_Witness ==
    /\ lastOp.op = "TorchTensor::inner"
    /\ lastOp.arg = 2
    /\ Len(wnative) = 2
    /\ wnative[1].of = wnative[2].of
    /\ wnative[1] = NativeOfWire(wnative[1].of)

(* ===================== Timers (src/src/profile.rs) ==================== *)
(* the build with debug_assertions, where start and stop have a body *)

Names == {"x", "y"}

(* the time that passes before a call *)
Elapse == {0, 1}

(* HashMap<String, Vec<Timer>>: a name without an entry, or its shots *)
NoEntry == [present |-> FALSE, shots |-> <<>>]

(* Timer::default(): start is Instant::now(), time is Duration::default();
   stops: the times at which stop wrote this shot (not program state) *)
Timer_default(at) == [start |-> at, time |-> 0, stops |-> <<>>]

(* the fields a Timer has in the program *)
Shot(t) == [start |-> t.start, time |-> t.time]
Shots(e) == [i \in 1..Len(e.shots) |-> Shot(e.shots[i])]

PushShot_Replace(shots, at) == <<Timer_default(at)>>

(* and_modify(|e| e.push(Timer::default())) *)
PushShot(shots, at) == Append(shots, Timer_default(at))

(* Timers::start(name): push onto the entry, or insert a new one *)
Timers_start(name, dt) ==
    /\ tcalls < MaxTimerCalls
    /\ now' = now + dt
    /\ tcalls' = tcalls + 1
    /\ timers' = [timers EXCEPT ![name] =
          IF timers[name].present
          THEN [present |-> TRUE, shots |-> PushShot(timers[name].shots, now')]
          ELSE [present |-> TRUE, shots |-> <<Timer_default(now')>>]]
    /\ lastOp' = OpArg("Timers::start", 0, timers, "Ok", <<>>, name)
    /\ UNCHANGED notTimer

(* the shot stop writes: e.last_mut(), 0 for None *)
StopTarget(shots) == Len(shots)

(* Timers::stop(name): and_modify on the entry, nothing without one *)
Timers_stop(name, dt) ==
    /\ tcalls < MaxTimerCalls
    /\ now' = now + dt
    /\ tcalls' = tcalls + 1
    /\ LET e == timers[name]
           k == StopTarget(e.shots)
       IN timers' =
            IF e.present /\ k > 0
            THEN [timers EXCEPT ![name].shots[k] =
                     [start |-> e.shots[k].start,
                      time |-> now' - e.shots[k].start,
                      stops |-> Append(e.shots[k].stops, now')]]
            ELSE timers
    /\ lastOp' = OpArg("Timers::stop", 0, timers, "Ok", <<>>, name)
    /\ UNCHANGED notTimer

(* Timers::clear *)
Timers_clear ==
    /\ \E n \in Names : timers[n].present
    /\ timers' = [n \in Names |-> NoEntry]
    /\ lastOp' = OpArg("Timers::clear", 0, timers, "Ok", <<>>, "")
    /\ UNCHANGED <<now, tcalls, notTimer>>

(* e.iter().map(|x| x.time.as_nanos()).sum() *)
RECURSIVE SumTimes(_)
SumTimes(shots) ==
    IF shots = <<>> THEN 0 ELSE Head(shots).time + SumTimes(Tail(shots))

(* what Timers::format is given: name, time and entries *)
Line(name, time, entries) == [name |-> name, time |-> time, entries |-> entries]

(* Timers::print(name, msg): the last shot of the entry *)
Timers_print(name) ==
    /\ LET e == timers[name] IN
         lastOp' =
            IF e.present /\ e.shots # <<>>
            THEN OpArg("Timers::print", 0, timers, "printed", <<>>,
                       Line(name, e.shots[Len(e.shots)].time, 1))
            ELSE OpArg("Timers::print", 0, timers, "nothing", <<>>,
                       Line(name, 0, 0))
    /\ UNCHANGED <<timerVars, notTimer>>

(* Timers::print_total(name, msg): the sum over the entry and its length *)
Timers_print_total(name) ==
    /\ LET e == timers[name] IN
         lastOp' =
            IF e.present
            THEN OpArg("Timers::print_total", 0, timers, "printed", <<>>,
                       Line(name, SumTimes(e.shots), Len(e.shots)))
            ELSE OpArg("Timers::print_total", 0, timers, "nothing", <<>>,
                       Line(name, 0, 0))
    /\ UNCHANGED <<timerVars, notTimer>>

(* Timers::print_all_total_to_buf(msg): one line per entry, in map order *)
Timers_print_all_total_to_buf ==
    /\ lastOp' = OpArg("Timers::print_all_total_to_buf", 0, timers, "Ok", <<>>,
                       {Line(n, SumTimes(timers[n].shots), Len(timers[n].shots)) :
                          n \in {m \in Names : timers[m].present}})
    /\ UNCHANGED <<timerVars, notTimer>>

(* ----------------------------- Timer claims --------------------------- *)

MaxOf(S) == CHOOSE x \in S : \A y \in S : y <= x

(* the shots of an entry that no stop has written: still open *)
OpenShots(e) == {i \in 1..Len(e.shots) : e.shots[i].stops = <<>>}
StoppedShots(e) == {i \in 1..Len(e.shots) : e.shots[i].stops # <<>>}

(* C18: stop(name) records the elapsed time in the most recently opened shot
   of the name that is still open and leaves every other shot as it was;
   without an open shot it changes nothing and creates no entry. *)
C18_StopClosesLastOpenShot ==
    lastOp.op = "Timers::stop" =>
        LET pre == lastOp.pre
            name == lastOp.arg
            open == OpenShots(pre[name])
        IN /\ \A n \in Names \ {name} : timers[n] = pre[n]
           /\ timers[name].present = pre[name].present
           /\ open = {} => Shots(timers[name]) = Shots(pre[name])
           /\ open # {} =>
                 Shots(timers[name]) =
                    [Shots(pre[name]) EXCEPT ![MaxOf(open)].time =
                        now - pre[name].shots[MaxOf(open)].start]

(* C19: start(name) appends one new open shot to the name's history and
   leaves the earlier shots as they were; when every shot of a name was
   started and then stopped once, each holds its own elapsed time, in call
   order. *)
C19_StartOpensNewShot ==
    /\ lastOp.op = "Timers::start" =>
          LET pre == lastOp.pre
              name == lastOp.arg
          IN /\ \A n \in Names \ {name} : timers[n] = pre[n]
             /\ timers[name].present
             /\ timers[name].shots =
                   Append(pre[name].shots, Timer_default(now))
    /\ \A n \in Names :
          (\A i \in 1..Len(timers[n].shots) : Len(timers[n].shots[i].stops) = 1)
          => /\ \A i \in 1..Len(timers[n].shots) :
                   timers[n].shots[i].time =
                      timers[n].shots[i].stops[1] - timers[n].shots[i].start
             /\ \A i, j \in 1..Len(timers[n].shots) :
                   i < j => timers[n].shots[i].stops[1] <= timers[n].shots[j].start

(* start x, stop x, start x, stop x: two shots with their own times *)
C19_Witness ==
    /\ lastOp.op = "Timers::stop"
    /\ Len(timers["x"].shots) = 2
    /\ \A i \in 1..2 : Len(timers["x"].shots[i].stops) = 1
    /\ timers["x"].shots[1].time # timers["x"].shots[2].time

(* C20: the count a total reports is the number of stopped shots, its total
   is the sum of their elapsed times, and the last-shot value is the elapsed
   time of the last stopped shot; open shots count for nothing. *)
C20_AggregatesOverStoppedShots ==
    /\ (lastOp.op = "Timers::print_total" /\ lastOp.result = "printed") =>
          LET e == timers[lastOp.arg.name] IN
          /\ lastOp.arg.entries = Cardinality(StoppedShots(e))
          /\ lastOp.arg.time =
                SumTimes([i \in 1..Len(e.shots) |->
                            IF i \in StoppedShots(e) THEN e.shots[i]
                            ELSE [e.shots[i] EXCEPT !.time = 0]])
    /\ lastOp.op = "Timers::print_all_total_to_buf" =>
          \A l \in lastOp.arg :
             l.entries = Cardinality(StoppedShots(timers[l.name]))
    /\ (lastOp.op = "Timers::print" /\ lastOp.result = "printed") =>
          LET e == timers[lastOp.arg.name] IN
          /\ StoppedShots(e) # {}
          /\ lastOp.arg.time = e.shots[MaxOf(StoppedShots(e))].time

(* ============================ specification ============================ *)

Init ==
    /\ mem = [a \in Allocs |-> [owner |-> "unused", size |-> 0, frees |-> <<>>]]
    /\ nbuf = [h \in BufHandles |-> FreshBuf]
    /\ buffers = [w \in BufSlots |->
                    [state |-> "none", inner |-> NULL, vaccel_owned |-> FALSE]]
    /\ nmodel = [h \in MHandles |-> FreshModel]
    /\ models = [m \in MSlots |-> [state |-> "none", inner |-> NULL]]
    /\ ntensor = [h \in THandles |-> FreshTensor]
    /\ tensors = [t \in TSlots |-> FreshWrapper]
    /\ wire = [w \in WSlots |-> NoWire]
    /\ wnative = <<>>
    /\ timers = [n \in Names |-> NoEntry]
    /\ now = 0
    /\ tcalls = 0
    /\ lastOp = NoOp
    /\ halted = FALSE

NextBuffer ==
    \/ \E s \in ByteSizes : CallerAlloc(s)
    \/ \E a \in Allocs : CallerFree(a)
    \/ \E w \in BufSlots, a \in Allocs, ok \in BOOLEAN : Buffer_new(w, a, ok)
    \/ \E d \in BOOLEAN, s \in ByteSizes : NativeBufferProduce(d, s)
    \/ \E w \in BufSlots, h \in BufHandles : Buffer_from_vaccel_buffer(w, h)
    \/ \E w \in BufSlots : Buffer_as_slice(w)
    \/ \E w \in BufSlots : Buffer_drop(w)
    \/ \E h \in BufHandles : NativeBufferRelease(h)

SpecBuffer == Init /\ [][NextBuffer]_vars

NextModel ==
    \/ \E m \in MSlots, ok \in BOOLEAN : SavedModel_new(m, ok)
    \/ \E m \in MSlots, pathOk \in BOOLEAN, sc \in NativeCodes, rc \in NativeCodes :
          SavedModel_from_export_dir(m, pathOk, sc, rc)
    \/ \E m \in MSlots, sc \in NativeCodes, rc \in NativeCodes :
          SavedModel_from_in_memory(m, sc, rc)
    \/ \E m \in MSlots, c \in NativeCodes : SavedModel_destory(m, c)
    \/ \E m \in MSlots : Resource_destroy(m)
    \/ \E m \in MSlots : SavedModel_scope_exit(m)

SpecModel == Init /\ [][NextModel]_vars

NextTensor ==
    \/ \E t \in TSlots, ty \in ElemTypes, d \in DimChoices, ok \in BOOLEAN :
          Tensor_new(t, ty, d, ok)
    \/ \E d \in DimChoices, tag \in NativeTags, wd \in BOOLEAN :
          NativeTensorProduce(d, tag, wd)
    \/ \E t \in TSlots, ty \in ElemTypes, h \in THandles \cup {NULL},
          f \in BOOLEAN : Tensor_from_vaccel_tensor(t, ty, h, f)
    \/ \E t \in TSlots, data \in DataInputs : Tensor_with_data(t, data)
    \/ \E t \in TSlots : Tensor_drop(t)

SpecTensor == Init /\ [][NextTensor]_vars

(* import over every element type and every native tag *)
NextImport ==
    \/ \E d \in DimChoices, tag \in AllTags, wd \in BOOLEAN :
          NativeTensorProduce(d, tag, wd)
    \/ \E t \in TSlots, ty \in AllElemTypes, h \in THandles \cup {NULL},
          f \in BOOLEAN : Tensor_from_vaccel_tensor(t, ty, h, f)
    \/ \E t \in TSlots : Tensor_drop(t)

SpecImport == Init /\ [][NextImport]_vars

(* construction over every element type *)
NextTypes ==
    \/ \E t \in TSlots, ty \in AllElemTypes, d \in DimChoices, ok \in BOOLEAN :
          Tensor_new(t, ty, d, ok)
    \/ \E t \in TSlots : Tensor_drop(t)

SpecTypes == Init /\ [][NextTypes]_vars

(* wire tensors and the native tensors made from them *)
NextInner ==
    \/ \E t \in TSlots, ty \in ElemTypes, d \in DimChoices, ok \in BOOLEAN :
          Tensor_new(t, ty, d, ok)
    \/ \E t \in TSlots, data \in DataInputs : Tensor_with_data(t, data)
    \/ \E t \in TSlots, w \in WSlots : Tensor_as_grpc(t, w)
    \/ \E w \in WSlots, ok \in BOOLEAN : TorchTensor_inner(w, ok)
    \/ \E i \in 1..MaxInnerCalls : TorchTensor_from(i)

SpecInner == Init /\ [][NextInner]_vars

(* tensors, their element views and their wire form *)
NextWire ==
    \/ \E t \in TSlots, ty \in ElemTypes, d \in DimChoices, ok \in BOOLEAN :
          Tensor_new(t, ty, d, ok)
    \/ \E d \in DimChoices, tag \in NativeTags, wd \in BOOLEAN :
          NativeTensorProduce(d, tag, wd)
    \/ \E t \in TSlots, ty \in ElemTypes, h \in THandles \cup {NULL},
          f \in BOOLEAN : Tensor_from_vaccel_tensor(t, ty, h, f)
    \/ \E t \in TSlots, data \in DataInputs : Tensor_with_data(t, data)
    \/ \E t \in TSlots, i \in 1..MaxDataLen, v \in Values :
          Tensor_index_write(t, i, v)
    \/ \E h \in THandles, i \in 1..MaxDataLen, v \in Values :
          NativeTensorWrite(h, i, v)
    \/ \E t \in TSlots, w \in WSlots : Tensor_as_grpc(t, w)
    \/ \E w \in WSlots, ok \in BOOLEAN : TorchTensor_inner(w, ok)
    \/ \E i \in 1..MaxInnerCalls : TorchTensor_from(i)
    \/ \E t \in TSlots : Tensor_drop(t)

SpecWire == Init /\ [][NextWire]_vars

NextTimers ==
    \/ \E n \in Names, dt \in Elapse : Timers_start(n, dt)
    \/ \E n \in Names, dt \in Elapse : Timers_stop(n, dt)
    \/ Timers_clear
    \/ \E n \in Names : Timers_print(n)
    \/ \E n \in Names : Timers_print_total(n)
    \/ Timers_print_all_total_to_buf

SpecTimers == Init /\ [][NextTimers]_vars

Next ==
    \/ NextBuffer \/ NextModel \/ NextTensor \/ NextImport \/ NextWire
    \/ NextTimers \/ NextTypes \/ NextInner

Spec == Init /\ [][Next]_vars

====
